---- MODULE Spec2Model ----
(***************************************************************************)
(* json-t: the converters of jsont/basic_from_json_converters.py, which    *)
(* turn an object representing JSON into a value of a target type.         *)
(*                                                                         *)
(* A JSON value is a Python object (None, bool, int, float, str, list,     *)
(* dict); a target type is a Python type (Any, object, NoneType, int,      *)
(* float, str, bool, Literal[..], Union[..], tuple[..], Sequence[..],      *)
(* Mapping[str, ..], a TypedDict class).  Both are modelled as records     *)
(* with one fixed set of fields, so that any two of them can be compared.  *)
(***************************************************************************)
EXTENDS Integers, Sequences, FiniteSets

VARIABLES js, target_type, strict, depth, pc, result, attempted, failures

vars == <<js, target_type, strict, depth, pc, result, attempted, failures>>

----------------------------------------------------------------------------
(* Bounds of the checked inputs.                                           *)

MaxInt == 1
MaxStrLen == 2
MaxArrayLen == 3
MaxKeys == 2
MaxUnionLen == 3
MaxTupleLen == 3

----------------------------------------------------------------------------
(* JSON values as Python objects.  k is the Python class of the object;    *)
(* a number is n + h/2 (bool: n is 0 or 1, as in Python, where True == 1); *)
(* a str is its sequence s of characters; a list or tuple has items; a     *)
(* dict is the ordered keys with the values in items.                      *)

Val(k, n, h, s, keys, items) ==
    [k |-> k, n |-> n, h |-> h, s |-> s, keys |-> keys, items |-> items]

JNull == Val("NoneType", 0, 0, <<>>, <<>>, <<>>)
JBool(b) == Val("bool", IF b THEN 1 ELSE 0, 0, <<>>, <<>>, <<>>)
JInt(n) == Val("int", n, 0, <<>>, <<>>, <<>>)
JFloat(n, h) == Val("float", n, h, <<>>, <<>>, <<>>)
JStr(s) == Val("str", 0, 0, s, <<>>, <<>>)
JArray(items) == Val("list", 0, 0, <<>>, <<>>, items)
JTuple(items) == Val("tuple", 0, 0, <<>>, <<>>, items)
JObject(keys, items) == Val("dict", 0, 0, <<>>, keys, items)

SimpleKinds == {"int", "float", "str", "bool"}
NumericKinds == {"int", "float", "bool"}
IsScalar(v) == v.k \in SimpleKinds

(* The kind of a JSON value: the class of the Python object.               *)
KindOf(v) == v.k

----------------------------------------------------------------------------
(* Target types.  kind is the shape of the type; simple is the class of a  *)
(* simple type (or the key type of a Mapping); allowed are the literals;   *)
(* args are the type parameters (alternatives of a Union, elements of a    *)
(* tuple, element of a Sequence, value of a Mapping, field types of a      *)
(* TypedDict); names are the field names of a TypedDict, in the order of   *)
(* args, and required its __required_keys__.                               *)

Ty(kind, simple, allowed, args, names, required) ==
    [kind |-> kind, simple |-> simple, allowed |-> allowed, args |-> args,
     names |-> names, required |-> required]

AnyType == Ty("Any", "", {}, <<>>, <<>>, {})
ObjectType == Ty("object", "", {}, <<>>, <<>>, {})
NullType == Ty("NullType", "", {}, <<>>, <<>>, {})
Simple(c) == Ty("Simple", c, {}, <<>>, <<>>, {})
Literal(allowed) == Ty("Literal", "", allowed, <<>>, <<>>, {})
Union(alts) == Ty("Union", "", {}, alts, <<>>, {})
Tuple(elements) == Ty("Tuple", "", {}, elements, <<>>, {})
SequenceOf(element) == Ty("Sequence", "", {}, <<element>>, <<>>, {})
MappingOf(key, value) == Ty("Mapping", key, {}, <<value>>, <<>>, {})
Record(names, types, required) == Ty("Record", "", {}, types, names, required)
Ellipsis == Ty("Ellipsis", "", {}, <<>>, <<>>, {})

----------------------------------------------------------------------------
(* Conversion outcomes: a returned value, or a raised ValueError.  err     *)
(* names the raise statement; keys are the keys the message names; pairs   *)
(* are the (alternative, failure) pairs a Union's message lists.           *)

Ok(v) == [ok |-> TRUE, val |-> v, err |-> "", keys |-> {}, pairs |-> <<>>]
Fail(err) == [ok |-> FALSE, val |-> JNull, err |-> err, keys |-> {}, pairs |-> <<>>]
FailKeys(err, keys) ==
    [ok |-> FALSE, val |-> JNull, err |-> err, keys |-> keys, pairs |-> <<>>]
FailPairs(err, pairs) ==
    [ok |-> FALSE, val |-> JNull, err |-> err, keys |-> {}, pairs |-> pairs]

----------------------------------------------------------------------------
(* The Python runtime, as far as the converters ask it.                    *)

(* inspect.isclass(target_type): the class a target type is, "" if it is   *)
(* a special form or a subscripted generic.                                *)
ClassOf(ty) ==
    CASE ty.kind = "Simple" -> ty.simple
      [] ty.kind = "NullType" -> "NoneType"
      [] ty.kind = "object" -> "object"
      [] ty.kind = "Any" -> "Any"
      [] ty.kind = "Record" -> "TypedDict"
      [] OTHER -> ""

(* typing.get_origin(target_type): the unsubscripted generic, "" if none.  *)
OriginOf(ty) ==
    CASE ty.kind = "Union" -> "Union"
      [] ty.kind = "Literal" -> "Literal"
      [] ty.kind = "Tuple" -> "tuple"
      [] ty.kind = "Sequence" -> "Sequence"
      [] ty.kind = "Mapping" -> "Mapping"
      [] OTHER -> ""

(* inspect.isclass of a class or origin name: Union and Literal are        *)
(* special forms, not classes.                                             *)
isclass(c) == c \notin {"", "Union", "Literal"}

(* issubclass(c, base) for the classes that occur: bool is an int; str,    *)
(* list and tuple are Sequences; dict and a TypedDict class are Mappings.  *)
issubclass(c, base) ==
    \/ c = base
    \/ base = "object"
    \/ <<c, base>> \in {<<"bool", "int">>,
                        <<"str", "Sequence">>, <<"list", "Sequence">>,
                        <<"tuple", "Sequence">>,
                        <<"dict", "Mapping">>, <<"TypedDict", "Mapping">>}

(* isinstance(js, cls) *)
isinstance(v, cls) == issubclass(v.k, cls)

(* a == b of two JSON values one of which is a scalar: numbers compare by  *)
(* value whatever their class, strings by their characters.                *)
PyEq(a, b) ==
    \/ a.k \in NumericKinds /\ b.k \in NumericKinds /\ a.n = b.n /\ a.h = b.h
    \/ a.k = "str" /\ b.k = "str" /\ a.s = b.s
    \/ a.k = "NoneType" /\ b.k = "NoneType"

(* len(js) and the elements iterating js yields, for a Sequence: a list's  *)
(* items, a str's one-character strings.                                   *)
Elements(v) ==
    IF v.k = "str" THEN [i \in 1..Len(v.s) |-> JStr(<<v.s[i]>>)] ELSE v.items

Min(a, b) == IF a < b THEN a ELSE b
Max(a, b) == IF a > b THEN a ELSE b

----------------------------------------------------------------------------
(* The converters.  from_json is the callback a converter gets to convert  *)
(* the values a container contains.                                        *)

RECURSIVE from_json(_, _)

(* A container built from the converted parts rs, in order: the first      *)
(* part that raised raises out of the comprehension; otherwise the         *)
(* container of the parts' values.                                         *)
Collect(rs, container) ==
    IF \E i \in 1..Len(rs) : ~rs[i].ok
    THEN rs[CHOOSE i \in 1..Len(rs) : ~rs[i].ok /\ \A j \in 1..(i - 1) : rs[j].ok]
    ELSE Ok(container)

ToAny_can_convert(ty) == ty.kind = "Any" \/ ClassOf(ty) = "object"

ToAny_convert(v, ty) == Ok(v)

ToUnion_can_convert(ty) == OriginOf(ty) = "Union"

(* Mutant: the alternatives in their order of occurrence.                  *)
union_types_in_order(ty) == ty.args

union_types_with_str_first(ty) ==
    (IF \E i \in 1..Len(ty.args) : ty.args[i] = Simple("str")
     THEN <<Simple("str")>> ELSE <<>>)
    \o SelectSeq(ty.args, LAMBDA a : a # Simple("str"))

(* What _first_success returns: the first result, or the failures.         *)
Returned(r) == [failed |-> FALSE, val |-> r.val, failures |-> <<>>]
Failures(fs) == [failed |-> TRUE, val |-> JNull, failures |-> fs]

RECURSIVE first_success(_, _, _, _)
first_success(v, args, i, fs) ==
    IF i > Len(args) THEN Failures(fs)
    ELSE LET r == from_json(v, args[i])
         IN IF r.ok THEN Returned(r)
            ELSE first_success(v, args, i + 1, Append(fs, r))

(* zip(union_types_with_str_first, res_or_failures) *)
zip(args, fs) ==
    [i \in 1..Min(Len(args), Len(fs)) |-> [ty |-> args[i], failure |-> fs[i]]]

(* Mutant: the error reports the last failure only.                        *)
ToUnion_result_last_failure(args, rof) ==
    IF rof.failed /\ Len(rof.failures) > 0
    THEN FailPairs("NoAlternativeMatched",
                   <<[ty |-> args[Len(args)], failure |-> rof.failures[Len(rof.failures)]]>>)
    ELSE IF rof.failed THEN Ok(JArray(<<>>)) ELSE Ok(rof.val)

(* The end of ToUnion.convert: raise if res_or_failures is a non-empty     *)
(* list of ValueErrors, else return it (an empty list of failures is       *)
(* returned as the empty list it is).                                      *)
ToUnion_result(args, rof) ==
    IF rof.failed /\ Len(rof.failures) > 0
    THEN FailPairs("NoAlternativeMatched", zip(args, rof.failures))
    ELSE IF rof.failed THEN Ok(JArray(<<>>)) ELSE Ok(rof.val)

ToUnion_convert(v, ty) ==
    LET args == union_types_with_str_first(ty)
    IN ToUnion_result(args, first_success(v, args, 1, <<>>))

ToLiteral_can_convert(ty) == OriginOf(ty) = "Literal"

ToLiteral_convert(v, ty) ==
    IF \E l \in ty.allowed : PyEq(v, l) THEN Ok(v) ELSE Fail("NotInLiteralSet")

ToNone_can_convert(ty) == ClassOf(ty) = "NoneType"

ToNone_convert(v, ty) == IF v.k = "NoneType" THEN Ok(JNull) ELSE Fail("NotNull")

ToSimple_can_convert(ty) ==
    isclass(ClassOf(ty)) /\ \E c \in SimpleKinds : issubclass(ClassOf(ty), c)

ToSimple_convert(v, ty) ==
    IF isinstance(v, ty.simple) THEN Ok(v) ELSE Fail("TypeMismatch")

ToTuple_can_convert(ty) == isclass(OriginOf(ty)) /\ issubclass(OriginOf(ty), "tuple")

count_ellipsis(types) == Cardinality({i \in 1..Len(types) : types[i] = Ellipsis})

(* Mutant: one wildcard too few.                                           *)
fill_ellipsis_one_less(types, expected_len, fill_type) ==
    LET ellipsis_idx == CHOOSE i \in 1..Len(types) :
                            types[i] = Ellipsis /\ \A j \in 1..(i - 1) : types[j] # Ellipsis
        n == Max(expected_len - Len(types), 0)
    IN SubSeq(types, 1, ellipsis_idx - 1)
       \o [i \in 1..n |-> fill_type]
       \o SubSeq(types, ellipsis_idx + 1, Len(types))

fill_ellipsis(types, expected_len, fill_type) ==
    LET ellipsis_idx == CHOOSE i \in 1..Len(types) :
                            types[i] = Ellipsis /\ \A j \in 1..(i - 1) : types[j] # Ellipsis
        n == Max(expected_len - Len(types) + 1, 0)
    IN SubSeq(types, 1, ellipsis_idx - 1)
       \o [i \in 1..n |-> fill_type]
       \o SubSeq(types, ellipsis_idx + 1, Len(types))

replace_ellipsis(element_types, expected_len) ==
    IF count_ellipsis(element_types) > 0
    THEN fill_ellipsis(element_types, expected_len, ObjectType)
    ELSE element_types

ToTuple_convert(v, ty) ==
    IF count_ellipsis(ty.args) > 1 THEN Fail("InvalidDescriptor")
    ELSE IF isinstance(v, "Sequence")
    THEN LET es == Elements(v)
             element_types == replace_ellipsis(ty.args, Len(es))
         IN IF Len(es) # Len(element_types) THEN Fail("ArityMismatch")
            ELSE LET rs == [i \in 1..Len(es) |-> from_json(es[i], element_types[i])]
                 IN Collect(rs, JTuple([i \in 1..Len(es) |-> rs[i].val]))
    ELSE Fail("NotConvertible")

(* Mutant: only the Sequence generic itself.                               *)
ToList_can_convert_exact(ty) == OriginOf(ty) = "Sequence"

ToList_can_convert(ty) == isclass(OriginOf(ty)) /\ issubclass(OriginOf(ty), "Sequence")

ToList_convert(v, ty) ==
    IF isinstance(v, "Sequence")
    THEN LET es == Elements(v)
             rs == [i \in 1..Len(es) |-> from_json(es[i], ty.args[1])]
         IN Collect(rs, JArray([i \in 1..Len(es) |-> rs[i].val]))
    ELSE Fail("NotConvertible")

ToMapping_can_convert(ty) == isclass(OriginOf(ty)) /\ issubclass(OriginOf(ty), "Mapping")

ToMapping_convert(v, ty) ==
    IF ty.simple # "str" THEN Fail("InvalidKeyType")
    ELSE IF isinstance(v, "Mapping")
    THEN LET rs == [i \in 1..Len(v.items) |-> from_json(v.items[i], ty.args[1])]
         IN Collect(rs, JObject(v.keys, [i \in 1..Len(v.items) |-> rs[i].val]))
    ELSE Fail("NotConvertible")

ToTypedMapping_can_convert(ty) == isclass(ClassOf(ty)) /\ issubclass(ClassOf(ty), "Mapping")

(* annotations: the field names of the TypedDict, and each one's type.     *)
annotated(ty) == {ty.names[i] : i \in 1..Len(ty.names)}
annotation(ty, key) == ty.args[CHOOSE i \in 1..Len(ty.names) : ty.names[i] = key]

(* Mutant: the declared entries only, whatever strict is.                  *)
items_of_declared(v, ty) ==
    SelectSeq([i \in 1..Len(v.keys) |-> i], LAMBDA i : v.keys[i] \in annotated(ty))

(* items: the positions in js of the entries to convert.                   *)
items_of(v, ty) ==
    IF strict THEN [i \in 1..Len(v.keys) |-> i]
    ELSE SelectSeq([i \in 1..Len(v.keys) |-> i], LAMBDA i : v.keys[i] \in annotated(ty))

(* from_json(v, type_for_key(k)) for one entry: type_for_key raises for a  *)
(* key without annotation before from_json is called.                      *)
convert_item(v, ty, i) ==
    IF v.keys[i] \in annotated(ty)
    THEN from_json(v.items[i], annotation(ty, v.keys[i]))
    ELSE FailKeys("UnknownField", {v.keys[i]})

(* Mutant: the required keys are checked after the entries are converted. *)
ToTypedMapping_convert_check_last(v, ty) ==
    IF isinstance(v, "Mapping")
    THEN LET items == items_of(v, ty)
             rs == [i \in 1..Len(items) |-> convert_item(v, ty, items[i])]
             r == Collect(rs, JObject([i \in 1..Len(items) |-> v.keys[items[i]]],
                                      [i \in 1..Len(items) |-> rs[i].val]))
         IN IF ~r.ok THEN r
            ELSE IF ty.required \subseteq {v.keys[i] : i \in 1..Len(v.keys)} THEN r
            ELSE FailKeys("MissingRequiredFields", ty.required)
    ELSE Fail("NotConvertible")

ToTypedMapping_convert(v, ty) ==
    IF isinstance(v, "Mapping")
    THEN IF ty.required \subseteq {v.keys[i] : i \in 1..Len(v.keys)}
         THEN LET items == items_of(v, ty)
                  rs == [i \in 1..Len(items) |-> convert_item(v, ty, items[i])]
              IN Collect(rs, JObject([i \in 1..Len(items) |-> v.keys[items[i]]],
                                    [i \in 1..Len(items) |-> rs[i].val]))
         ELSE FailKeys("MissingRequiredFields", ty.required)
    ELSE Fail("NotConvertible")

(* The converters in the order they are tried, and each one's predicate.   *)
Converters ==
    <<"ToAny", "ToUnion", "ToLiteral", "ToNone", "ToSimple", "ToTuple", "ToList",
      "ToMapping", "ToTypedMapping">>

can_convert(c, ty) ==
    CASE c = "ToAny" -> ToAny_can_convert(ty)
      [] c = "ToUnion" -> ToUnion_can_convert(ty)
      [] c = "ToLiteral" -> ToLiteral_can_convert(ty)
      [] c = "ToNone" -> ToNone_can_convert(ty)
      [] c = "ToSimple" -> ToSimple_can_convert(ty)
      [] c = "ToTuple" -> ToTuple_can_convert(ty)
      [] c = "ToList" -> ToList_can_convert(ty)
      [] c = "ToMapping" -> ToMapping_can_convert(ty)
      [] c = "ToTypedMapping" -> ToTypedMapping_can_convert(ty)

(* The converter the driver uses: the first one whose predicate holds,     *)
(* "" if there is none.                                                    *)
Selected(ty) ==
    IF \E i \in 1..Len(Converters) : can_convert(Converters[i], ty)
    THEN Converters[CHOOSE i \in 1..Len(Converters) :
                        /\ can_convert(Converters[i], ty)
                        /\ \A j \in 1..(i - 1) : ~can_convert(Converters[j], ty)]
    ELSE ""

from_json(v, ty) ==
    LET c == Selected(ty)
    IN CASE c = "ToAny" -> ToAny_convert(v, ty)
         [] c = "ToUnion" -> ToUnion_convert(v, ty)
         [] c = "ToLiteral" -> ToLiteral_convert(v, ty)
         [] c = "ToNone" -> ToNone_convert(v, ty)
         [] c = "ToSimple" -> ToSimple_convert(v, ty)
         [] c = "ToTuple" -> ToTuple_convert(v, ty)
         [] c = "ToList" -> ToList_convert(v, ty)
         [] c = "ToMapping" -> ToMapping_convert(v, ty)
         [] c = "ToTypedMapping" -> ToTypedMapping_convert(v, ty)
         [] OTHER -> Fail("UnsupportedType")

----------------------------------------------------------------------------
(* The calls a converter makes to from_json, in order: a container stops   *)
(* at the first part that raises, a Union at the first alternative that    *)
(* returns.                                                                *)

Arg(v, ty) == [js |-> v, ty |-> ty]

(* The arguments each converter would pass if no call ended its           *)
(* iteration; a key without annotation gets no call: Ellipsis marks it.    *)
ToUnion_calls(v, ty) ==
    LET args == union_types_with_str_first(ty)
    IN [i \in 1..Len(args) |-> Arg(v, args[i])]

ToTuple_calls(v, ty) ==
    IF count_ellipsis(ty.args) <= 1 /\ isinstance(v, "Sequence")
    THEN LET es == Elements(v)
             element_types == replace_ellipsis(ty.args, Len(es))
         IN IF Len(es) # Len(element_types) THEN <<>>
            ELSE [i \in 1..Len(es) |-> Arg(es[i], element_types[i])]
    ELSE <<>>

(* Mutant: the elements are converted to the Sequence type itself.         *)
ToList_calls_same_type(v, ty) ==
    IF isinstance(v, "Sequence")
    THEN LET es == Elements(v) IN [i \in 1..Len(es) |-> Arg(es[i], ty)]
    ELSE <<>>

ToList_calls(v, ty) ==
    IF isinstance(v, "Sequence")
    THEN LET es == Elements(v) IN [i \in 1..Len(es) |-> Arg(es[i], ty.args[1])]
    ELSE <<>>

ToMapping_calls(v, ty) ==
    IF ty.simple = "str" /\ isinstance(v, "Mapping")
    THEN [i \in 1..Len(v.items) |-> Arg(v.items[i], ty.args[1])]
    ELSE <<>>

ToTypedMapping_calls(v, ty) ==
    IF /\ isinstance(v, "Mapping")
       /\ ty.required \subseteq {v.keys[i] : i \in 1..Len(v.keys)}
    THEN LET items == items_of(v, ty)
         IN [i \in 1..Len(items) |->
                IF v.keys[items[i]] \in annotated(ty)
                THEN Arg(v.items[items[i]], annotation(ty, v.keys[items[i]]))
                ELSE Arg(v.items[items[i]], Ellipsis)]
    ELSE <<>>

candidate_calls(v, ty) ==
    LET c == Selected(ty)
    IN CASE c = "ToUnion" -> ToUnion_calls(v, ty)
         [] c = "ToTuple" -> ToTuple_calls(v, ty)
         [] c = "ToList" -> ToList_calls(v, ty)
         [] c = "ToMapping" -> ToMapping_calls(v, ty)
         [] c = "ToTypedMapping" -> ToTypedMapping_calls(v, ty)
         [] OTHER -> <<>>

(* Whether the iteration goes on after candidate call a.                   *)
goes_on(ty, a) ==
    IF Selected(ty) = "ToUnion" THEN ~from_json(a.js, a.ty).ok
    ELSE a.ty # Ellipsis /\ from_json(a.js, a.ty).ok

calls_made(v, ty) ==
    LET cs == candidate_calls(v, ty)
        last == IF \A i \in 1..Len(cs) : goes_on(ty, cs[i]) THEN Len(cs)
                ELSE CHOOSE i \in 1..Len(cs) :
                        ~goes_on(ty, cs[i]) /\ \A j \in 1..(i - 1) : goes_on(ty, cs[j])
    IN SelectSeq(SubSeq(cs, 1, last), LAMBDA a : a.ty # Ellipsis)

----------------------------------------------------------------------------
(* The inputs: JSON values and target types.                               *)

SeqsUpTo(S, n) == UNION {[1..m -> S] : m \in 0..n}
Distinct(s) == \A i, j \in 1..Len(s) : i # j => s[i] # s[j]

Chars == {"a", "b"}
Keys == {"k1", "k2", "un"}

Scalars ==
    {JBool(TRUE), JBool(FALSE)}
    \cup {JInt(n) : n \in 0..MaxInt}
    \cup {JFloat(n, h) : n \in 0..MaxInt, h \in {0, 1}}
    \cup {JStr(s) : s \in SeqsUpTo(Chars, MaxStrLen)}

ElementValues == {JInt(1), JStr(<<"a">>)}
EntryValues == {JInt(1), JStr(<<"a">>)}

Arrays ==
    {JArray(s) : s \in SeqsUpTo(ElementValues, MaxArrayLen)}
    \cup {JArray(<<JArray(<<JInt(1)>>)>>), JArray(<<JObject(<<"k1">>, <<JInt(1)>>)>>)}

Objects ==
    {JObject(ks, vs) : <<ks, vs>> \in
        UNION {{ks \in [1..m -> Keys] : Distinct(ks)} \X [1..m -> EntryValues]
               : m \in 0..Min(MaxKeys, Cardinality(Keys))}}

JsonValues == {JNull} \cup Scalars \cup Arrays \cup Objects

LeafTypes == {AnyType, ObjectType, NullType} \cup {Simple(c) : c \in SimpleKinds}

LiteralValues == {JInt(n) : n \in 0..MaxInt} \cup {JBool(TRUE), JStr(<<"a">>)}
Literals ==
    {Literal(ls) : ls \in {x \in SUBSET LiteralValues : Cardinality(x) \in 1..2}}

Sequences == {SequenceOf(e) : e \in LeafTypes \cup {SequenceOf(Simple("int"))}}

Mappings ==
    {MappingOf("str", e) : e \in {AnyType, Simple("int"), Simple("str")}}
    \cup {MappingOf("int", AnyType)}

Alternatives ==
    {Simple("int"), Simple("str"), SequenceOf(Simple("str")), MappingOf("str", AnyType)}
Unions ==
    {Union(s) : s \in {x \in SeqsUpTo(Alternatives, MaxUnionLen) : Len(x) >= 2 /\ Distinct(x)}}

TupleElements == {Simple("int"), Simple("str"), Ellipsis}
Tuples == {Tuple(s) : s \in SeqsUpTo(TupleElements, MaxTupleLen)}

FieldTypes == {Simple("int"), Simple("str")}
FieldNames == {<<>>, <<"k1">>, <<"k2">>, <<"k1", "k2">>}
Records ==
    {Record(f[1], f[2], f[3]) : f \in
        UNION {{ns} \X [1..Len(ns) -> FieldTypes] \X SUBSET {ns[i] : i \in 1..Len(ns)}
               : ns \in FieldNames}}

TargetTypes ==
    LeafTypes \cup Literals \cup Sequences \cup Mappings \cup Unions \cup Tuples
    \cup Records \cup {Ellipsis}

----------------------------------------------------------------------------
(* The state: one call from_json(js, target_type) of a driver whose        *)
(* ToTypedMapping was built with strict, the number of calls of from_json  *)
(* it is nested in, and where it stands.                                   *)

NoResult == Fail("")

Init ==
    /\ js \in JsonValues
    /\ target_type \in TargetTypes
    /\ strict \in (IF target_type.kind = "Record" THEN BOOLEAN ELSE {FALSE})
    /\ depth = 0
    /\ pc = "call"
    /\ result = NoResult
    /\ attempted = <<>>
    /\ failures = <<>>

Return(r) ==
    /\ pc' = "done"
    /\ result' = r
    /\ UNCHANGED <<js, target_type, strict, depth, attempted, failures>>

ToAnyConvert ==
    /\ pc = "call" /\ Selected(target_type) = "ToAny"
    /\ Return(ToAny_convert(js, target_type))

ToLiteralConvert ==
    /\ pc = "call" /\ Selected(target_type) = "ToLiteral"
    /\ Return(ToLiteral_convert(js, target_type))

ToNoneConvert ==
    /\ pc = "call" /\ Selected(target_type) = "ToNone"
    /\ Return(ToNone_convert(js, target_type))

ToSimpleConvert ==
    /\ pc = "call" /\ Selected(target_type) = "ToSimple"
    /\ Return(ToSimple_convert(js, target_type))

ToTupleConvert ==
    /\ pc = "call" /\ Selected(target_type) = "ToTuple"
    /\ Return(ToTuple_convert(js, target_type))

ToListConvert ==
    /\ pc = "call" /\ Selected(target_type) = "ToList"
    /\ Return(ToList_convert(js, target_type))

ToMappingConvert ==
    /\ pc = "call" /\ Selected(target_type) = "ToMapping"
    /\ Return(ToMapping_convert(js, target_type))

ToTypedMappingConvert ==
    /\ pc = "call" /\ Selected(target_type) = "ToTypedMapping"
    /\ Return(ToTypedMapping_convert(js, target_type))

NoConverter ==
    /\ pc = "call" /\ Selected(target_type) = ""
    /\ Return(Fail("UnsupportedType"))

(* ToUnion.convert up to its call of _first_success.                       *)
ToUnionConvert ==
    /\ pc = "call" /\ Selected(target_type) = "ToUnion"
    /\ pc' = "first_success"
    /\ attempted' = <<>>
    /\ failures' = <<>>
    /\ UNCHANGED <<js, target_type, strict, depth, result>>

(* One iteration of _first_success's loop: the next alternative is tried;  *)
(* its result is returned, or its failure appended.                        *)
FirstSuccessTry ==
    /\ pc = "first_success"
    /\ Len(attempted) < Len(union_types_with_str_first(target_type))
    /\ LET ty == union_types_with_str_first(target_type)[Len(attempted) + 1]
           r == from_json(js, ty)
       IN /\ attempted' = Append(attempted, ty)
          /\ IF r.ok
             THEN pc' = "returned" /\ result' = r /\ UNCHANGED failures
             ELSE failures' = Append(failures, r) /\ UNCHANGED <<pc, result>>
    /\ UNCHANGED <<js, target_type, strict, depth>>

(* The loop ends with every alternative tried: the failures are returned.  *)
FirstSuccessFailures ==
    /\ pc = "first_success"
    /\ Len(attempted) = Len(union_types_with_str_first(target_type))
    /\ pc' = "failed"
    /\ UNCHANGED <<js, target_type, strict, depth, result, attempted, failures>>

(* ToUnion.convert after _first_success: raise or return.                  *)
ToUnionReturn ==
    /\ pc \in {"returned", "failed"}
    /\ Return(ToUnion_result(union_types_with_str_first(target_type),
                             IF pc = "failed" THEN Failures(failures)
                             ELSE Returned(result)))

(* A call the converter makes to from_json: the state follows it.          *)
CallFromJson ==
    /\ pc = "call"
    /\ \E i \in 1..Len(calls_made(js, target_type)) :
          /\ js' = calls_made(js, target_type)[i].js
          /\ target_type' = calls_made(js, target_type)[i].ty
    /\ depth' = depth + 1
    /\ UNCHANGED <<strict, pc, result, attempted, failures>>

Next ==
    \/ ToAnyConvert
    \/ ToUnionConvert
    \/ FirstSuccessTry
    \/ FirstSuccessFailures
    \/ ToUnionReturn
    \/ ToLiteralConvert
    \/ ToNoneConvert
    \/ ToSimpleConvert
    \/ ToTupleConvert
    \/ ToListConvert
    \/ ToMappingConvert
    \/ ToTypedMappingConvert
    \/ NoConverter
    \/ CallFromJson

Spec == Init /\ [][Next]_vars

Done == pc = "done"

(* The steps of a call agree with the converter as a function.             *)
StepsAgree == Done => result = from_json(js, target_type)

(* The types the converters are written for: one of the nine shapes (or    *)
(* object, which stands for Any), a tuple with at most one ..., a Mapping  *)
(* keyed by str.                                                           *)
WellFormed(ty) ==
    /\ ty.kind \in {"Any", "object", "NullType", "Simple", "Literal", "Union", "Tuple",
                    "Sequence", "Mapping", "Record"}
    /\ ty.kind = "Tuple" => count_ellipsis(ty.args) <= 1
    /\ ty.kind = "Mapping" => ty.simple = "str"
    /\ ty.kind = "Union" => Len(ty.args) > 0

KeysOf(v) == {v.keys[i] : i \in 1..Len(v.keys)}
Range(s) == {s[i] : i \in 1..Len(s)}
Position(s, x) == CHOOSE i \in 1..Len(s) : s[i] = x

----------------------------------------------------------------------------
(* C1: a scalar of kind k converts to Simple(k) unchanged, and to every    *)
(* other simple kind it fails with TypeMismatch.                           *)
C1_SimpleExactness ==
    (Done /\ target_type.kind = "Simple" /\ IsScalar(js)) =>
        IF KindOf(js) = target_type.simple
        THEN result = Ok(js)
        ELSE ~result.ok /\ result.err = "TypeMismatch"

----------------------------------------------------------------------------
(* C2: the alternatives of a Union are tried in an order that has          *)
(* Simple(string) ahead of every Sequence and Mapping alternative and      *)
(* keeps the other alternatives in their original relative order; the     *)
(* result is that of the first alternative in this order that succeeds,    *)
(* and nothing is tried after it; so a string against a union holding      *)
(* Sequence(Simple(string)) and Simple(string) is returned as it is.       *)
InUnion == target_type.kind = "Union" /\ pc \in {"first_success", "returned", "failed", "done"}

----------------------------------------------------------------------------
(* C3: a Union fails iff every alternative fails; the failure is           *)
(* NoAlternativeMatched with one (alternative, failure) pair per           *)
(* alternative, in the order tried, each failure with the alternative      *)
(* that produced it; a success, falsy or not, is never a failure.          *)
C3_UnionFailure ==
    (Done /\ target_type.kind = "Union") =>
        LET alts == target_type.args
        IN /\ ~result.ok <=> \A i \in 1..Len(alts) : ~from_json(js, alts[i]).ok
           /\ ~result.ok =>
                /\ result.err = "NoAlternativeMatched"
                /\ Len(result.pairs) = Len(alts)
                /\ Len(attempted) = Len(alts)
                /\ \A i \in 1..Len(alts) :
                      /\ result.pairs[i].ty = attempted[i]
                      /\ result.pairs[i].failure = from_json(js, attempted[i])
                      /\ ~result.pairs[i].failure.ok
                /\ {result.pairs[i].ty : i \in 1..Len(alts)} = Range(alts)
           /\ result.ok => \E i \in 1..Len(alts) : result = from_json(js, alts[i])

C3_Witness ==
    /\ Done /\ target_type = Union(<<Simple("int"), Simple("str")>>)
    /\ js = JFloat(1, 1)
    /\ result = FailPairs("NoAlternativeMatched",
                          <<[ty |-> Simple("str"), failure |-> Fail("TypeMismatch")],
                            [ty |-> Simple("int"), failure |-> Fail("TypeMismatch")]>>)

----------------------------------------------------------------------------
(* C4: an array of length L against a tuple of n elements with at most     *)
(* one gap passes the arity check iff L = n without gap and iff            *)
(* L >= n - 1 with a gap, which stands for L - (n - 1) wildcards in its    *)
(* place; then the result is the tuple of the elements converted each to   *)
(* the type at its position, and one element's failure fails the tuple.    *)
C4_TupleArity ==
    (Done /\ target_type.kind = "Tuple" /\ js.k = "list"
          /\ count_ellipsis(target_type.args) <= 1) =>
        LET types == target_type.args
            L == Len(js.items)
            n == Len(types)
            gap == \E i \in 1..n : types[i] = Ellipsis
            g == IF gap THEN CHOOSE i \in 1..n : types[i] = Ellipsis ELSE 0
            passes == IF gap THEN L >= n - 1 ELSE L = n
            expected(i) == IF ~gap \/ i < g THEN types[i]
                           ELSE IF i > L - (n - g) THEN types[i - (L - n)]
                           ELSE AnyType
            rs == [i \in 1..L |-> from_json(js.items[i], expected(i))]
        IN /\ (~result.ok /\ result.err = "ArityMismatch") <=> ~passes
           /\ passes =>
                IF \A i \in 1..L : rs[i].ok
                THEN result = Ok(JTuple([i \in 1..L |-> rs[i].val]))
                ELSE ~result.ok /\ \E i \in 1..L : result = rs[i]

C4_Witness ==
    /\ Done /\ target_type = Tuple(<<Simple("int"), Ellipsis, Simple("str")>>)
    /\ js = JArray(<<JInt(1), JStr(<<"a">>), JStr(<<"a">>)>>)
    /\ result = Ok(JTuple(<<JInt(1), JStr(<<"a">>), JStr(<<"a">>)>>))

----------------------------------------------------------------------------
(* C5: a JSON value that is not an array never converts to a Tuple or a    *)
(* Sequence.                                                               *)
C5_ArrayRequired ==
    (Done /\ target_type.kind \in {"Tuple", "Sequence"} /\ WellFormed(target_type)
          /\ js.k # "list") => ~result.ok

----------------------------------------------------------------------------
(* C6: an object with every required key converts to a Record by its       *)
(* retained entries: the declared ones when not strict, all of them when   *)
(* strict, which fails with UnknownField if a key is not declared; on      *)
(* success the result has the retained keys, each with its value           *)
(* converted to its field's type.                                          *)
IsRecordCall ==
    Done /\ target_type.kind = "Record" /\ js.k = "dict"

Declared == Range(target_type.names)
FieldType(key) == target_type.args[Position(target_type.names, key)]
(* Entry i of js converted to the type of its field. *)
Converted(i) == from_json(js.items[i], FieldType(js.keys[i]))
(* The positions in js of the retained entries, in order. *)
Retained ==
    SelectSeq([i \in 1..Len(js.keys) |-> i],
              LAMBDA i : strict \/ js.keys[i] \in Declared)

RetainedConverted ==
    IF \A i \in 1..Len(Retained) : Converted(Retained[i]).ok
    THEN result = Ok(JObject([i \in 1..Len(Retained) |-> js.keys[Retained[i]]],
                             [i \in 1..Len(Retained) |-> Converted(Retained[i]).val]))
    ELSE ~result.ok /\ \E i \in 1..Len(Retained) : result = Converted(Retained[i])

C6_RecordRetained ==
    (IsRecordCall /\ target_type.required \subseteq KeysOf(js)) =>
        IF strict /\ ~(KeysOf(js) \subseteq Declared)
        THEN ~result.ok /\ result.err = "UnknownField"
        ELSE RetainedConverted

(* C6 as amended: the entries are converted in the order of js, so with    *)
(* an undeclared key in strict mode the conversion fails with UnknownField *)
(* if every entry before the first such key converts, and otherwise with   *)
(* the failure of the first entry that does not.                           *)
C6_RecordRetainedInOrder ==
    (IsRecordCall /\ target_type.required \subseteq KeysOf(js)) =>
        IF strict /\ ~(KeysOf(js) \subseteq Declared)
        THEN LET u == CHOOSE i \in 1..Len(js.keys) :
                        /\ js.keys[i] \notin Declared
                        /\ \A j \in 1..(i - 1) : js.keys[j] \in Declared
             IN IF \A j \in 1..(u - 1) : Converted(j).ok
                THEN ~result.ok /\ result.err = "UnknownField"
                ELSE ~result.ok /\ \E j \in 1..(u - 1) :
                        /\ result = Converted(j)
                        /\ \A l \in 1..(j - 1) : Converted(l).ok
        ELSE RetainedConverted

C6_Witness ==
    /\ IsRecordCall /\ strict
    /\ target_type = Record(<<"k1">>, <<Simple("int")>>, {"k1"})
    /\ js = JObject(<<"k1", "un">>, <<JStr(<<"a">>), JInt(1)>>)
    /\ result = Fail("TypeMismatch")

----------------------------------------------------------------------------
(* C7: an object against a Record fails with MissingRequiredFields iff     *)
(* the required names are not all keys of the object, before any entry is  *)
(* converted, and the error names the required names absent from js.       *)
C7_MissingRequired ==
    IsRecordCall =>
        /\ (~result.ok /\ result.err = "MissingRequiredFields")
              <=> ~(target_type.required \subseteq KeysOf(js))
        /\ result.err = "MissingRequiredFields"
              => result.keys = target_type.required \ KeysOf(js)

(* C7 as amended: the error names all the required names of the Record.    *)
C7_MissingRequiredNamesAll ==
    IsRecordCall =>
        /\ (~result.ok /\ result.err = "MissingRequiredFields")
              <=> ~(target_type.required \subseteq KeysOf(js))
        /\ result.err = "MissingRequiredFields"
              => result.keys = target_type.required

C7_Witness ==
    /\ IsRecordCall /\ strict
    /\ target_type = Record(<<"k1", "k2">>, <<Simple("int"), Simple("int")>>, {"k1", "k2"})
    /\ js = JObject(<<"un", "k1">>, <<JInt(1), JStr(<<"a">>)>>)
    /\ result = FailKeys("MissingRequiredFields", {"k1", "k2"})

----------------------------------------------------------------------------
(* C8: a JSON value converts to a Literal iff it is a scalar equal in kind *)
(* and value to one of the allowed values, and is then returned unchanged; *)
(* otherwise the conversion fails with NotInLiteralSet.                    *)
C8_LiteralExactness ==
    (Done /\ target_type.kind = "Literal") =>
        IF IsScalar(js) /\ js \in target_type.allowed
        THEN result = Ok(js)
        ELSE ~result.ok /\ result.err = "NotInLiteralSet"

----------------------------------------------------------------------------
(* C9: exactly one converter's can_convert holds of a well-formed type.    *)
Matching(ty) == {c \in Range(Converters) : can_convert(c, ty)}

ConverterFor(ty) ==
    CASE ty.kind \in {"Any", "object"} -> "ToAny"
      [] ty.kind = "NullType" -> "ToNone"
      [] ty.kind = "Simple" -> "ToSimple"
      [] ty.kind = "Literal" -> "ToLiteral"
      [] ty.kind = "Union" -> "ToUnion"
      [] ty.kind = "Tuple" -> "ToTuple"
      [] ty.kind = "Sequence" -> "ToList"
      [] ty.kind = "Mapping" -> "ToMapping"
      [] ty.kind = "Record" -> "ToTypedMapping"

C9_ExactlyOneConverter ==
    WellFormed(target_type) => Matching(target_type) = {ConverterFor(target_type)}

(* C9 as amended: exactly one converter's can_convert holds of a           *)
(* well-formed type other than a tuple; of a tuple both ToTuple's and      *)
(* ToList's hold, and ToTuple, which comes first, is the one used.         *)
C9_OneConverterButTuple ==
    WellFormed(target_type) =>
        /\ Matching(target_type) =
              IF target_type.kind = "Tuple" THEN {"ToTuple", "ToList"}
              ELSE {ConverterFor(target_type)}
        /\ Selected(target_type) = ConverterFor(target_type)

C9_Witness ==
    /\ Done /\ target_type = Tuple(<<Simple("int"), Simple("str")>>)
    /\ js = JArray(<<JInt(1), JStr(<<"a">>)>>)
    /\ result = Ok(JTuple(<<JInt(1), JStr(<<"a">>)>>))

----------------------------------------------------------------------------
(* C10: every call a converter makes to from_json passes a strict          *)
(* sub-value of js.                                                        *)
RECURSIVE JSize(_)
RECURSIVE JSizes(_)
JSizes(s) == IF s = <<>> THEN 0 ELSE JSize(Head(s)) + JSizes(Tail(s))
JSize(v) == 1 + Len(v.s) + JSizes(v.items)

RECURSIVE TySize(_)
RECURSIVE TySizes(_)
TySizes(s) == IF s = <<>> THEN 0 ELSE TySize(Head(s)) + TySizes(Tail(s))
TySize(ty) == 1 + TySizes(ty.args)

IsCall == depth' = depth + 1
StrictSubValue == js' \in Range(Elements(js)) /\ JSize(js') < JSize(js)

C10_CallsDescendInJson == [][IsCall => StrictSubValue]_vars

(* What is left of a call of from_json: the size of its type, then the     *)
(* steps left of its converter.                                            *)
StepsLeft ==
    CASE pc = "call" -> Len(target_type.args) + 3
      [] pc = "first_success" -> Len(target_type.args) - Len(attempted) + 2
      [] pc \in {"returned", "failed"} -> 1
      [] pc = "done" -> 0

(* A call that has not ended has a step to take: a converter's, the       *)
(* driver's without converter, or the next of the Union's.                 *)
HasStep ==
    \/ pc = "call" /\ Selected(target_type) \in Range(Converters) \cup {""}
    \/ pc = "first_success"
          /\ Len(attempted) <= Len(union_types_with_str_first(target_type))
    \/ pc \in {"returned", "failed"}

(* C10 as amended: every call a converter makes to from_json passes js     *)
(* itself or a strict sub-value of js, and a type strictly smaller than    *)
(* the converter's; every step leaves less to do, and a call that has not  *)
(* ended in a success or a failure has a step to take: every call ends.    *)
C10_CallsDescendInType ==
    /\ [][IsCall => /\ js' = js \/ StrictSubValue
                    /\ TySize(target_type') < TySize(target_type)]_vars
    /\ [][\/ TySize(target_type') < TySize(target_type)
          \/ target_type' = target_type /\ StepsLeft' < StepsLeft]_vars
    /\ [](Done \/ HasStep)
    /\ [](Done => result # NoResult)

C10_Witness ==
    /\ Done /\ depth = 2 /\ target_type = Simple("str") /\ js = JStr(<<"a">>)
    /\ result = Ok(js)

====
